---- MODULE Spec2Model ----
(***************************************************************************)
(* Model of event_forge's EventManager (src/src/lib.rs): a registry that   *)
(* maps the TypeId of an event type to the vector of boxed listeners       *)
(* subscribed to that type, with subscribe<E> and dispatch<E>.             *)
(*                                                                         *)
(* subscribe is one step.  dispatch takes &mut self, so nothing else can   *)
(* touch the manager while it runs; it is modelled as its start (the       *)
(* get_mut lookup), one step per iteration of its for loop, and its        *)
(* return, with pc = "dispatching" in between.  A panicking listener       *)
(* unwinds the call; the caller may catch the unwind and keep using the    *)
(* manager, so the model returns to pc = "idle" with the call marked       *)
(* "panicked".                                                             *)
(***************************************************************************)
EXTENDS Integers, Sequences, FiniteSets, TLC

\* ---- bounds of the model ----
MaxSubscribes == 3
MaxDispatches == 3

\* The event types of the repository's tests.
Types == {"PlayerJumped", "EnemySpawned"}

VARIABLES
    listeners,  \* EventManager.listeners: TypeId -> sequence of adapters
    pc,         \* "idle" or "dispatching" (inside a dispatch call)
    event,      \* the event of the dispatch call in progress
    idx,        \* position of the for loop of the dispatch call in progress
    subs,       \* history: the subscribe calls made so far, in call order
    callLog,    \* history: one record per dispatch call made so far
    received    \* received[id]: events the inner listener id was handed and handled

vars == <<listeners, pc, event, idx, subs, callLog, received>>

\* Variant: one identifier for every type.
TypeIdOf_collide(t) == 1

\* TypeId::of::<E>(): an opaque identifier, distinct for distinct types.
TypeIdOf(t) == CASE t = "PlayerJumped" -> 1
                 [] t = "EnemySpawned" -> 2

NoEvent == [ty |-> "none", val |-> 0]

\* HashMap::new()
NewRegistry == << >>

\* Variant: insert(type_id, Vec::new()), which resets an existing entry.
Entry_reset(reg, k) == (k :> << >>) @@ reg

\* self.listeners.entry(type_id).or_insert_with(Vec::new)
Entry(reg, k) == IF k \in DOMAIN reg THEN reg ELSE (k :> << >>) @@ reg

\* The boxed closure built by subscribe<E>: it remembers E (for its
\* downcast) and owns the inner listener.  id tells boxes apart.  The body
\* of the inner listener is opaque: any call of it may return or panic.
BoxedListener(E, id) == [E |-> E, id |-> id]

\* Variants: insert(0, boxed_listener); the vector replaced by the new box.
Push_front(reg, k, l) == [reg EXCEPT ![k] = <<l>> \o @]
Push_replace(reg, k, l) == [reg EXCEPT ![k] = <<l>>]

\* Variant: a box is not pushed when the vector already holds a listener
\* that behaves the same (one subscribed for the same type).
Push_dedup(reg, k, l) ==
    IF \E i \in 1..Len(reg[k]) : reg[k][i].E = l.E THEN reg
    ELSE [reg EXCEPT ![k] = Append(@, l)]

\* listeners.push(boxed_listener)
Push(reg, k, l) == [reg EXCEPT ![k] = Append(@, l)]

\* Variant: the vector of some entry of the map, whatever the key.
GetMut_any(reg, k) ==
    IF DOMAIN reg = {} THEN << >> ELSE reg[CHOOSE j \in DOMAIN reg : TRUE]
\* self.listeners.get_mut(&type_id): the vector under the key, if any.
GetMut(reg, k) == IF k \in DOMAIN reg THEN reg[k] ELSE << >>

\* event.downcast_ref::<E>() is Some exactly when the event's TypeId is E's.
DowncastRef(ev, E) == TypeIdOf(ev.ty) = TypeIdOf(E)

Init ==
    /\ listeners = NewRegistry
    /\ pc = "idle"
    /\ event = NoEvent
    /\ idx = 0
    /\ subs = << >>
    /\ callLog = << >>
    /\ received = << >>

\* Variant: subscribe reaches the registry while a dispatch call is running.
Subscribe_reentrant(E) ==
    /\ Len(subs) < MaxSubscribes
    /\ LET type_id == TypeIdOf(E)
           id == Len(subs) + 1
       IN /\ listeners' = Push(Entry(listeners, type_id), type_id,
                               BoxedListener(E, id))
          /\ subs' = Append(subs, [E |-> E, id |-> id, before |-> Len(callLog)])
          /\ received' = Append(received, << >>)
    /\ UNCHANGED <<pc, event, idx, callLog>>

\* Variant: subscribe hands the new listener the last dispatched event when
\* it is of the listener's type.
Subscribe_replay(E) ==
    /\ pc = "idle"
    /\ Len(subs) < MaxSubscribes
    /\ LET type_id == TypeIdOf(E)
           id == Len(subs) + 1
           last == IF callLog = << >> THEN NoEvent
                   ELSE callLog[Len(callLog)].event
       IN /\ listeners' = Push(Entry(listeners, type_id), type_id,
                               BoxedListener(E, id))
          /\ subs' = Append(subs, [E |-> E, id |-> id, before |-> Len(callLog)])
          /\ received' = Append(received,
                                IF last.ty = E THEN <<last>> ELSE << >>)
    /\ UNCHANGED <<pc, event, idx, callLog>>

\* subscribe<E>(listener)
Subscribe(E) ==
    /\ pc = "idle"
    /\ Len(subs) < MaxSubscribes
    /\ LET type_id == TypeIdOf(E)
           id == Len(subs) + 1
       IN /\ listeners' = Push(Entry(listeners, type_id), type_id,
                               BoxedListener(E, id))
          /\ subs' = Append(subs, [E |-> E, id |-> id, before |-> Len(callLog)])
          /\ received' = Append(received, << >>)
    /\ UNCHANGED <<pc, event, idx, callLog>>

\* The vector the running dispatch call iterates over.
Current == GetMut(listeners, TypeIdOf(event.ty))

\* The event value handed to the next dispatch call.
NewEvent(E) == [ty |-> E, val |-> Len(callLog) + 1]

SetLast(log, f, v) == [log EXCEPT ![Len(log)] = [@ EXCEPT ![f] = v]]

\* Variant: the lookup is done with entry(), which inserts a missing key.
DispatchStart_entry(E) ==
    /\ pc = "idle"
    /\ Len(callLog) < MaxDispatches
    /\ pc' = "dispatching"
    /\ event' = NewEvent(E)
    /\ idx' = 1
    /\ listeners' = Entry(listeners, TypeIdOf(E))
    /\ callLog' = Append(callLog,
                         [event |-> NewEvent(E),
                          nSubs |-> Len(subs),
                          registry |-> listeners,
                          after |-> listeners,
                          invoked |-> << >>,
                          status |-> "running"])
    /\ UNCHANGED <<subs, received>>

\* dispatch<E>(event): entry, up to the get_mut lookup.  The manager never
\* looks into the payload; both types carry a number, so that they are
\* structurally alike, and the event of the n-th call carries n, so that
\* every delivery can be told from every other.
DispatchStart(E) ==
    /\ pc = "idle"
    /\ Len(callLog) < MaxDispatches
    /\ pc' = "dispatching"
    /\ event' = NewEvent(E)
    /\ idx' = 1
    /\ callLog' = Append(callLog,
                         [event |-> NewEvent(E),
                          nSubs |-> Len(subs),
                          registry |-> listeners,
                          after |-> listeners,
                          invoked |-> << >>,
                          status |-> "running"])
    /\ UNCHANGED <<listeners, subs, received>>

\* One iteration of the for loop whose listener returns: the adapter
\* downcasts the event and, on success, calls the inner listener, which
\* handles the event; on a failed downcast the adapter does nothing.
InvokeListener ==
    /\ pc = "dispatching"
    /\ idx <= Len(Current)
    /\ LET l == Current[idx]
           hit == DowncastRef(event, l.E)
       IN /\ received' = IF hit THEN [received EXCEPT ![l.id] = Append(@, event)]
                                ELSE received
          /\ callLog' = IF hit
                        THEN SetLast(callLog, "invoked",
                                     Append(callLog[Len(callLog)].invoked, l.id))
                        ELSE callLog
    /\ idx' = idx + 1
    /\ UNCHANGED <<listeners, pc, event, subs>>

\* Variant: the panic of the inner listener is caught and the loop goes on.
InvokePanic_swallow ==
    /\ pc = "dispatching"
    /\ idx <= Len(Current)
    /\ LET l == Current[idx]
       IN /\ DowncastRef(event, l.E)
          /\ callLog' = SetLast(callLog, "invoked",
                                Append(callLog[Len(callLog)].invoked, l.id))
    /\ idx' = idx + 1
    /\ UNCHANGED <<listeners, pc, event, subs, received>>

\* Variant: the vector is moved out of the map for the loop and is lost
\* when a panic unwinds the call.
InvokePanic_lost ==
    /\ pc = "dispatching"
    /\ idx <= Len(Current)
    /\ listeners' = [listeners EXCEPT ![TypeIdOf(event.ty)] = << >>]
    /\ LET l == Current[idx]
       IN /\ DowncastRef(event, l.E)
          /\ callLog' = SetLast(SetLast(SetLast(callLog, "invoked",
                                        Append(callLog[Len(callLog)].invoked, l.id)),
                                "status", "panicked"), "after", listeners')
    /\ pc' = "idle"
    /\ event' = NoEvent
    /\ idx' = 0
    /\ UNCHANGED <<subs, received>>

\* One iteration of the for loop whose inner listener panics: the panic
\* unwinds dispatch, the rest of the loop is not run.  invoked records the
\* call of the listener, received does not get the event.
InvokePanic ==
    /\ pc = "dispatching"
    /\ idx <= Len(Current)
    /\ listeners' = listeners
    /\ LET l == Current[idx]
       IN /\ DowncastRef(event, l.E)
          /\ callLog' = SetLast(SetLast(SetLast(callLog, "invoked",
                                        Append(callLog[Len(callLog)].invoked, l.id)),
                                "status", "panicked"), "after", listeners')
    /\ pc' = "idle"
    /\ event' = NoEvent
    /\ idx' = 0
    /\ UNCHANGED <<subs, received>>

\* Variant: the vector is consumed by the loop (listeners.drain(..)).
DispatchReturn_drain ==
    /\ pc = "dispatching"
    /\ idx > Len(Current)
    /\ listeners' = [k \in DOMAIN listeners |->
                        IF k = TypeIdOf(event.ty) THEN << >> ELSE listeners[k]]
    /\ callLog' = SetLast(SetLast(callLog, "status", "returned"),
                          "after", listeners')
    /\ pc' = "idle"
    /\ event' = NoEvent
    /\ idx' = 0
    /\ UNCHANGED <<subs, received>>

\* Variant: dispatch returns before the loop is over and leaves the rest
\* of the listeners for later.
DispatchReturn_early ==
    /\ pc = "dispatching"
    /\ listeners' = listeners
    /\ callLog' = SetLast(SetLast(callLog, "status", "returned"),
                          "after", listeners')
    /\ pc' = "idle"
    /\ event' = NoEvent
    /\ idx' = 0
    /\ UNCHANGED <<subs, received>>

\* Variant: the end of the loop is tested one position too far.
DispatchReturn_blocked ==
    /\ pc = "dispatching"
    /\ idx > Len(Current) + 1
    /\ listeners' = listeners
    /\ callLog' = SetLast(SetLast(callLog, "status", "returned"),
                          "after", listeners')
    /\ pc' = "idle"
    /\ event' = NoEvent
    /\ idx' = 0
    /\ UNCHANGED <<subs, received>>

\* The loop is exhausted (or there was no vector): dispatch returns.
DispatchReturn ==
    /\ pc = "dispatching"
    /\ idx > Len(Current)
    /\ listeners' = listeners
    /\ callLog' = SetLast(SetLast(callLog, "status", "returned"),
                          "after", listeners')
    /\ pc' = "idle"
    /\ event' = NoEvent
    /\ idx' = 0
    /\ UNCHANGED <<subs, received>>

Next ==
    \/ \E E \in Types : Subscribe(E)
    \/ \E E \in Types : DispatchStart(E)
    \/ InvokeListener
    \/ InvokePanic
    \/ DispatchReturn

Spec == Init /\ [][Next]_vars

\* dispatch is a synchronous call: once entered it keeps running, and every
\* listener body it calls comes to an end, by returning or by panicking.
FairSpec == Spec /\ WF_vars(InvokeListener \/ InvokePanic \/ DispatchReturn)

TypeOK ==
    /\ pc \in {"idle", "dispatching"}
    /\ Len(subs) <= MaxSubscribes
    /\ Len(callLog) <= MaxDispatches
    /\ Len(received) = Len(subs)
\* ---- helpers of the properties ----
IsPrefix(s, t) == Len(s) <= Len(t) /\ SubSeq(t, 1, Len(s)) = s

Count(s, x) == Cardinality({j \in 1..Len(s) : s[j] = x})

\* Ids of the first n subscribe calls that were made for type T, in call order.
IdsFor(T, n) ==
    LET F[i \in 0..n] == IF i = 0 THEN << >>
                         ELSE IF subs[i].E = T THEN Append(F[i-1], i) ELSE F[i-1]
    IN F[n]

Calls == 1..Len(callLog)
Ids == 1..Len(subs)

\* C1: type isolation.  Every listener invoked by a dispatch call was
\* subscribed for exactly the type of the dispatched event, and every event
\* a listener has handled is of the type the listener was subscribed for.
C1_TypeIsolation ==
    /\ \A c \in Calls : \A j \in 1..Len(callLog[c].invoked) :
          subs[callLog[c].invoked[j]].E = callLog[c].event.ty
    /\ \A id \in Ids : \A j \in 1..Len(received[id]) :
          received[id][j].ty = subs[id].E

\* A dispatch of one type returned after invoking a listener, while a
\* listener of the other type was registered and was left alone.
C1_Witness ==
    \E c \in Calls : \E a \in Ids :
        /\ callLog[c].status = "returned"
        /\ callLog[c].invoked # << >>
        /\ a <= callLog[c].nSubs
        /\ subs[a].E # callLog[c].event.ty
        /\ Count(callLog[c].invoked, a) = 0
        /\ received[a] = << >>

\* C2: order preservation.  At every moment of a dispatch call of type T the
\* listeners invoked so far are, in order, the first listeners subscribed to
\* T before the call; once the call has returned they are all of them, in
\* subscription order, whatever was subscribed to other types in between.
C2_OrderPreserved ==
    \A c \in Calls :
        LET reg == IdsFor(callLog[c].event.ty, callLog[c].nSubs)
        IN /\ IsPrefix(callLog[c].invoked, reg)
           /\ callLog[c].status = "returned" => callLog[c].invoked = reg

\* A returned dispatch invoked listeners 1 and 3, subscribed around a
\* subscription (2) to the other type.
C2_Witness ==
    \E c \in Calls :
        /\ callLog[c].status = "returned"
        /\ callLog[c].invoked = <<1, 3>>
        /\ subs[2].E # callLog[c].event.ty

\* C3: exactly-once delivery.  A dispatch call of type T that returned
\* invoked each listener registered for T when the call started exactly
\* once, and invoked no other listener.
C3_ExactlyOnce ==
    \A c \in Calls :
        callLog[c].status = "returned" =>
            \A id \in Ids :
                Count(callLog[c].invoked, id) =
                    IF id <= callLog[c].nSubs /\ subs[id].E = callLog[c].event.ty
                    THEN 1 ELSE 0

\* A returned dispatch with two listeners of its type and one listener of
\* the other type registered at its start.
C3_Witness ==
    \E c \in Calls :
        /\ callLog[c].status = "returned"
        /\ callLog[c].nSubs = 3
        /\ Len(callLog[c].invoked) = 2

\* Events of type T dispatched by the calls after the first n ones.
EventsAfter(T, n) ==
    LET F[c \in n..Len(callLog)] ==
            IF c = n THEN << >>
            ELSE IF callLog[c].event.ty = T THEN Append(F[c-1], callLog[c].event)
                 ELSE F[c-1]
    IN F[Len(callLog)]

\* The listener id has handled the event of call c.
Handled(id, c) ==
    /\ Count(callLog[c].invoked, id) = 1
    /\ ~(callLog[c].status = "panicked"
         /\ callLog[c].invoked[Len(callLog[c].invoked)] = id)

HandledEvents(id) ==
    LET n == subs[id].before
        F[c \in n..Len(callLog)] ==
            IF c = n THEN << >>
            ELSE IF Handled(id, c) THEN Append(F[c-1], callLog[c].event)
                 ELSE F[c-1]
    IN F[Len(callLog)]

\* C4: per-listener delivery history.  When every dispatch of T made since a
\* listener subscribed to T has returned, the listener has handled exactly
\* the T events dispatched since then, once each, in dispatch order and with
\* the dispatched payload values, and nothing of another type.  In general
\* its history is the events of the calls that reached it and in which it
\* did not fail.
C4_DeliveryHistory ==
    \A id \in Ids :
        /\ received[id] = HandledEvents(id)
        /\ (\A c \in Calls : (c > subs[id].before
                              /\ callLog[c].event.ty = subs[id].E)
                                 => callLog[c].status = "returned")
             => received[id] = EventsAfter(subs[id].E, subs[id].before)

\* The second test of the repository: two PlayerJumped listeners and one
\* EnemySpawned listener, then Jump 1, Spawn, Jump 2.
C4_Witness ==
    /\ Len(subs) = 3 /\ Len(callLog) = 3
    /\ subs[1].E = "PlayerJumped" /\ subs[2].E = "PlayerJumped"
    /\ subs[3].E = "EnemySpawned"
    /\ received[1] = <<[ty |-> "PlayerJumped", val |-> 1],
                       [ty |-> "PlayerJumped", val |-> 3]>>
    /\ received[2] = received[1]
    /\ received[3] = <<[ty |-> "EnemySpawned", val |-> 2]>>
    /\ callLog[2].event.ty = "EnemySpawned"

\* C5: repeatability.  Two consecutive dispatch calls of the same type with
\* no subscribe in between, both returning, invoke the same listeners in the
\* same order, each listener once in each call.
C5_Repeatable ==
    \A c \in Calls :
        (/\ c + 1 \in Calls
         /\ callLog[c].event.ty = callLog[c+1].event.ty
         /\ callLog[c].nSubs = callLog[c+1].nSubs
         /\ callLog[c].status = "returned"
         /\ callLog[c+1].status = "returned")
        => /\ callLog[c+1].invoked = callLog[c].invoked
           /\ \A id \in Ids : Count(callLog[c+1].invoked, id) <= 1
           /\ \A id \in Ids : Count(callLog[c].invoked, id) <= 1

\* Two consecutive returned dispatches of one type, two listeners each time.
C5_Witness ==
    \E c \in Calls :
        /\ c + 1 \in Calls
        /\ callLog[c].event.ty = callLog[c+1].event.ty
        /\ callLog[c].nSubs = callLog[c+1].nSubs
        /\ callLog[c].status = "returned"
        /\ callLog[c+1].status = "returned"
        /\ Len(callLog[c].invoked) = 2
        /\ Len(callLog[c+1].invoked) = 2
\* C6: no listeners means no-op.  A dispatch call for a type nobody had
\* subscribed to when it started (on a new manager or next to listeners of
\* another type) invokes nothing, does not panic, and leaves the registry
\* as it found it, without an entry for the type.
C6_NoListenersNoOp ==
    \A c \in Calls :
        IdsFor(callLog[c].event.ty, callLog[c].nSubs) = << >> =>
            /\ callLog[c].invoked = << >>
            /\ callLog[c].status # "panicked"
            /\ callLog[c].after = callLog[c].registry
            /\ callLog[c].status = "running" => listeners = callLog[c].registry
            /\ TypeIdOf(callLog[c].event.ty) \notin DOMAIN callLog[c].after

\* A dispatch on the new manager returned, and so did a dispatch of a type
\* without listeners while the other type had one.
C6_Witness ==
    /\ Len(callLog) >= 2
    /\ callLog[1].nSubs = 0 /\ callLog[1].status = "returned"
    /\ \E c \in Calls :
          /\ callLog[c].status = "returned"
          /\ callLog[c].registry # << >>
          /\ IdsFor(callLog[c].event.ty, callLog[c].nSubs) = << >>

\* C7: independent registries.  A subscribe to type B leaves, for every
\* other type A, the presence of A's entry and the listener sequence of A
\* unchanged.
C7_IndependentRegistries ==
    [][\A A \in Types :
          (Len(subs') = Len(subs) + 1 /\ subs'[Len(subs')].E # A) =>
              /\ TypeIdOf(A) \in DOMAIN listeners' <=> TypeIdOf(A) \in DOMAIN listeners
              /\ GetMut(listeners', TypeIdOf(A)) = GetMut(listeners, TypeIdOf(A))]_vars

\* One listener of a type, then two subscriptions to the other type, then a
\* dispatch of the first type that invoked just that listener.
C7_Witness ==
    /\ Len(subs) = 3
    /\ subs[2].E # subs[1].E /\ subs[3].E # subs[1].E
    /\ Len(GetMut(listeners, TypeIdOf(subs[1].E))) = 1
    /\ \E c \in Calls : /\ callLog[c].nSubs = 3
                        /\ callLog[c].status = "returned"
                        /\ callLog[c].invoked = <<1>>

\* C8: dispatch never mutates the registry.  No step of a dispatch call (its
\* start, an iteration of its loop, its return or its unwinding) changes
\* the set of keys or the listener sequence under any key.
C8_DispatchKeepsRegistry ==
    [][(pc = "dispatching" \/ pc' = "dispatching") => listeners' = listeners]_vars

\* A dispatch that invoked a listener has finished while both types had
\* entries, and the registry is the one it started with.
C8_Witness ==
    \E c \in Calls :
        /\ callLog[c].status # "running"
        /\ callLog[c].invoked # << >>
        /\ Cardinality(DOMAIN callLog[c].registry) = 2
        /\ callLog[c].after = callLog[c].registry
        /\ listeners = callLog[c].registry

\* C9: subscribe is an unconditional append.  subscribe<T> can always be
\* called on a manager that is not inside a dispatch, and it leaves under
\* T's key the previous sequence (empty if there was no entry) with the new
\* listener added at the end, one element longer.
C9_SubscribeAppends ==
    /\ [](pc = "idle" /\ Len(subs) < MaxSubscribes =>
             \A E \in Types : ENABLED Subscribe(E))
    /\ [][Len(subs') = Len(subs) + 1 =>
             LET s == subs'[Len(subs')]
                 k == TypeIdOf(s.E)
                 old == IF k \in DOMAIN listeners THEN listeners[k] ELSE << >>
             IN /\ k \in DOMAIN listeners'
                /\ listeners'[k] = Append(old, BoxedListener(s.E, s.id))
                /\ Len(listeners'[k]) = Len(old) + 1]_vars

\* One type has two listeners (an append to an existing sequence) and the
\* other one (an entry created by its first subscription).
C9_Witness ==
    /\ Cardinality(DOMAIN listeners) = 2
    /\ \E k \in DOMAIN listeners : Len(listeners[k]) = 2
    /\ \E k \in DOMAIN listeners : Len(listeners[k]) = 1

\* The ids of the listeners stored for type T, in stored order.
StoredIds(T) ==
    LET v == GetMut(listeners, TypeIdOf(T))
    IN [i \in 1..Len(v) |-> v[i].id]

\* C10: append-only registry.  The registry is empty until the first
\* subscribe; every step keeps every key and extends its sequence at the
\* end or leaves it alone; and the sequence of a type is the subscribe
\* calls made for it so far, in call order.
C10_AppendOnly ==
    /\ [](Len(subs) = 0 => listeners = << >>)
    /\ [](\A T \in Types : StoredIds(T) = IdsFor(T, Len(subs)))
    /\ [][\A k \in DOMAIN listeners :
             k \in DOMAIN listeners' /\ IsPrefix(listeners[k], listeners'[k])]_vars

\* Three subscriptions to one type, made around dispatches, are stored in
\* call order.
C10_Witness ==
    /\ Len(subs) = 3 /\ Len(callLog) = 3
    /\ subs[2].before = 1 /\ subs[3].before = 2
    /\ \E T \in Types : StoredIds(T) = <<1, 2, 3>>
\* The call of listener id made by dispatch call c did not complete: the
\* listener was invoked and has not handled the event of the call.
Failed(id, c) ==
    /\ Count(callLog[c].invoked, id) > 0
    /\ Count(received[id], callLog[c].event) = 0

\* C11: a listener failure propagates and aborts the loop.  When the i-th
\* listener of T's sequence fails in a dispatch of T, the call is over and
\* marked as panicked (it is not caught and the loop does not go on), the
\* listeners 1..i-1 have each been invoked once and handled the event, the
\* failed listener is the last one invoked, and the listeners i+1..N are
\* not invoked in that call.  A call is marked as panicked only then.
C11_FailureAborts ==
    \A c \in Calls :
        LET inv == callLog[c].invoked
            reg == IdsFor(callLog[c].event.ty, callLog[c].nSubs)
        IN /\ \A j \in 1..Len(inv) :
                Failed(inv[j], c) =>
                    /\ callLog[c].status = "panicked"
                    /\ ~(pc = "dispatching" /\ c = Len(callLog))
                    /\ j = Len(inv)
                    /\ inv = SubSeq(reg, 1, j)
                    /\ \A i \in 1..(j-1) :
                          /\ Count(inv, reg[i]) = 1
                          /\ Count(received[reg[i]], callLog[c].event) = 1
                    /\ \A i \in (j+1)..Len(reg) :
                          /\ Count(inv, reg[i]) = 0
                          /\ Count(received[reg[i]], callLog[c].event) = 0
           /\ callLog[c].status = "panicked" =>
                 inv # << >> /\ Failed(inv[Len(inv)], c)

\* Three listeners of one type, the second failed: the first has handled
\* the event, the third was not invoked, the call is over.
C11_Witness ==
    /\ pc = "idle"
    /\ \E c \in Calls :
          /\ callLog[c].status = "panicked"
          /\ callLog[c].invoked = <<1, 2>>
          /\ IdsFor(callLog[c].event.ty, callLog[c].nSubs) = <<1, 2, 3>>
          /\ Count(received[1], callLog[c].event) = 1
          /\ Count(received[3], callLog[c].event) = 0

\* C12: no retroactive invocation.  While a dispatch call runs no subscribe
\* can take place, so the listeners it invokes are among those registered
\* when it started; a listener subscribed later is never invoked for it.
C12_NoRetroactive ==
    /\ \A c \in Calls : \A j \in 1..Len(callLog[c].invoked) :
          callLog[c].invoked[j] <= callLog[c].nSubs
    /\ \A c \in Calls : \A id \in Ids :
          id > callLog[c].nSubs => Count(received[id], callLog[c].event) = 0
    /\ pc = "dispatching" =>
          /\ Len(subs) = callLog[Len(callLog)].nSubs
          /\ \A E \in Types : ~ENABLED Subscribe(E)

\* A listener was subscribed to a type after a dispatch of that type, which
\* invoked another listener, had started; it has not received that event.
C12_Witness ==
    \E c \in Calls : \E id \in Ids :
        /\ subs[id].E = callLog[c].event.ty
        /\ id > callLog[c].nSubs
        /\ callLog[c].status = "returned"
        /\ callLog[c].invoked # << >>
        /\ Count(callLog[c].invoked, id) = 0
        /\ received[id] = << >>

\* C13: duplicates are kept.  k listeners subscribed to T that behave the
\* same make k entries in T's sequence, and every dispatch of T that
\* returns invokes k listeners.
C13_DuplicatesKept ==
    /\ \A T \in Types :
          Len(GetMut(listeners, TypeIdOf(T))) =
              Cardinality({id \in Ids : subs[id].E = T})
    /\ \A c \in Calls :
          callLog[c].status = "returned" =>
              Len(callLog[c].invoked) =
                  Cardinality({id \in 1..callLog[c].nSubs :
                                  subs[id].E = callLog[c].event.ty})

\* Three listeners of one type are stored and a dispatch invoked three.
C13_Witness ==
    /\ \E T \in Types : Len(GetMut(listeners, TypeIdOf(T))) = 3
    /\ \E c \in Calls : /\ callLog[c].status = "returned"
                        /\ Len(callLog[c].invoked) = 3
\* C14: synchronous delivery.  A listener handles an event only in a step
\* of the running dispatch call, and it is the event of that call; one step
\* is one invocation; at most the last call is running; a call that is
\* over never gets another invocation; and when a call has returned every
\* listener registered for its type has handled its event, nothing is left
\* pending.
C14_Synchronous ==
    /\ [](\A c \in Calls :
             /\ callLog[c].status = "running" => (pc = "dispatching" /\ c = Len(callLog))
             /\ callLog[c].status = "returned" =>
                   \A id \in 1..callLog[c].nSubs :
                       subs[id].E = callLog[c].event.ty =>
                           Count(received[id], callLog[c].event) = 1)
    /\ [][/\ \A id \in Ids :
                received'[id] # received[id] =>
                    /\ pc = "dispatching"
                    /\ received'[id] = Append(received[id], event)
          /\ Cardinality({id \in Ids : received'[id] # received[id]}) <= 1
          /\ \A c \in Calls :
                callLog'[c].invoked # callLog[c].invoked =>
                    /\ pc = "dispatching" /\ c = Len(callLog)
                    /\ Len(callLog'[c].invoked) = Len(callLog[c].invoked) + 1
          /\ \A c \in Calls :
                callLog[c].status # "running" =>
                    /\ callLog'[c] = callLog[c]
                    /\ \A id \in Ids : Count(received'[id], callLog[c].event)
                                         = Count(received[id], callLog[c].event)]_vars

\* A dispatch with two listeners has returned and both have its event.
C14_Witness ==
    /\ pc = "idle"
    /\ \E c \in Calls :
          /\ callLog[c].status = "returned"
          /\ Len(callLog[c].invoked) = 2
          /\ \A j \in 1..2 :
                Count(received[callLog[c].invoked[j]], callLog[c].event) = 1

\* C15: dispatch terminates.  Every dispatch call that has started comes to
\* an end: it returns after invoking every listener registered for the
\* type, or it is aborted by a listener failure.
C15_DispatchTerminates ==
    \A n \in 1..MaxDispatches :
        (Len(callLog) = n /\ pc = "dispatching")
            ~> (/\ Len(callLog) >= n
                /\ callLog[n].status \in {"returned", "panicked"}
                /\ callLog[n].status = "returned" =>
                      callLog[n].invoked =
                          IdsFor(callLog[n].event.ty, callLog[n].nSubs))

\* The last of the dispatch calls has returned after a loop over three
\* listeners.
C15_Witness ==
    /\ pc = "idle"
    /\ Len(callLog) = MaxDispatches
    /\ callLog[Len(callLog)].status = "returned"
    /\ Len(callLog[Len(callLog)].invoked) = 3

\* C16: the adapter's type check is redundant in dispatch.  Every adapter
\* stored under a key was built by subscribe for the type of that key, the
\* downcast of the adapter the loop is at succeeds, and every iteration of
\* the loop invokes its inner listener.
C16_DowncastSucceeds ==
    /\ [](\A k \in DOMAIN listeners : \A i \in 1..Len(listeners[k]) :
             TypeIdOf(listeners[k][i].E) = k)
    /\ [](pc = "dispatching" =>
             \A i \in 1..Len(Current) : DowncastRef(event, Current[i].E))
    /\ [][(pc = "dispatching" /\ pc' = "dispatching" /\ idx' # idx) =>
             Len(callLog'[Len(callLog)].invoked)
                 = Len(callLog[Len(callLog)].invoked) + 1]_vars

\* The loop of a dispatch is at its second adapter while the other type has
\* an entry too.
C16_Witness ==
    /\ pc = "dispatching"
    /\ idx = 2 /\ Len(Current) >= 2
    /\ Cardinality(DOMAIN listeners) = 2
    /\ Len(callLog[Len(callLog)].invoked) = 1
\* C17: no replay to late subscribers.  A subscribe step invokes nothing:
\* it leaves every call record and every listener's history as they are
\* and the new listener starts with an empty history; so a listener only
\* ever holds events of dispatch calls started after its subscription.
C17_NoReplay ==
    /\ [][Len(subs') = Len(subs) + 1 =>
             /\ callLog' = callLog
             /\ \A id \in Ids : received'[id] = received[id]
             /\ received'[Len(subs')] = << >>]_vars
    /\ [](\A id \in Ids : \A j \in 1..Len(received[id]) :
             received[id][j].val > subs[id].before)

\* A listener subscribed after a dispatch of its type, which an earlier
\* listener handled, holds only the event of a later dispatch.
C17_Witness ==
    \E id \in Ids : \E c \in Calls :
        /\ c <= subs[id].before
        /\ callLog[c].event.ty = subs[id].E
        /\ callLog[c].status = "returned"
        /\ callLog[c].invoked # << >>
        /\ Len(received[id]) = 1
        /\ received[id][1].val > c

\* C18: the registry survives a failed dispatch.  A dispatch call aborted by
\* a listener failure leaves the registry as it found it, every later
\* dispatch finds every listener of every type of that registry in its
\* place, and a later dispatch of the same type starts with the first
\* listener again.
C18_RegistrySurvivesFailure ==
    \A c \in Calls :
        callLog[c].status = "panicked" =>
            /\ callLog[c].after = callLog[c].registry
            /\ c = Len(callLog) =>
                  \A k \in DOMAIN callLog[c].registry :
                      /\ k \in DOMAIN listeners
                      /\ IsPrefix(callLog[c].registry[k], listeners[k])
            /\ \A d \in Calls :
                  d > c =>
                      /\ \A k \in DOMAIN callLog[c].registry :
                            /\ k \in DOMAIN callLog[d].registry
                            /\ IsPrefix(callLog[c].registry[k], callLog[d].registry[k])
                      /\ (/\ callLog[d].event.ty = callLog[c].event.ty
                          /\ callLog[d].status # "running") =>
                             /\ callLog[d].invoked # << >>
                             /\ callLog[d].invoked[1] = callLog[c].invoked[1]

\* A dispatch was aborted by its second listener, and the next dispatch of
\* the type went through both listeners from the first.
C18_Witness ==
    \E c \in Calls :
        /\ c + 1 \in Calls
        /\ callLog[c].status = "panicked"
        /\ callLog[c].invoked = <<1, 2>>
        /\ callLog[c+1].event.ty = callLog[c].event.ty
        /\ callLog[c+1].status = "returned"
        /\ callLog[c+1].invoked = <<1, 2>>

\* C19: no empty entries.  Every key of the registry maps to a non-empty
\* sequence, and the keys are exactly those of the types subscribe was
\* called for; a dispatch of any other type creates no key.
C19_NoEmptyEntries ==
    /\ \A k \in DOMAIN listeners : listeners[k] # << >>
    /\ DOMAIN listeners = {TypeIdOf(subs[id].E) : id \in Ids}

\* A type without subscription was dispatched, the call has returned, and
\* the registry has the key of the other type only.
C19_Witness ==
    /\ Cardinality(DOMAIN listeners) = 1
    /\ \E c \in Calls :
          /\ callLog[c].status = "returned"
          /\ TypeIdOf(callLog[c].event.ty) \notin DOMAIN listeners
          /\ callLog[c].registry # << >>
====
